---- MODULE Spec2Model ----
(***************************************************************************)
(* EOV <-> WGS84 converter dialog (eov-wgs.py, main_improved.py,           *)
(* main_refactored.py).                                                    *)
(*                                                                         *)
(* A text is a sequence of one-character strings.  A float is a record     *)
(* [cls, neg, m, e, src]: cls "fin" is the decimal (-1)^neg * m * 10^e     *)
(* with m not divisible by 10 (m = 0 has e = 0), "inf" and "nan" are what  *)
(* Python's float() returns for those numerals, and "lat", "lon", "eovy",  *)
(* "eovx" are the components returned by the projection library for the    *)
(* pair of floats in src (the library is external: its numbers are kept    *)
(* as terms over its arguments).                                           *)
(***************************************************************************)
EXTENDS Integers, Sequences, FiniteSets, TLC

VARIABLES
    version,           \* which of the three programs is running
    markers,           \* MapManager.markers (main_refactored.py)
    map_widget,        \* the document last handed to QWebEngineView.setHtml
    eovtowgs_output,   \* read-only result field of the EOV->WGS group
    wgstoeov_output,   \* read-only result field of the WGS->EOV group
    handler,           \* the button handler that ran last
    shown,             \* message boxes shown by the handler that ran last
    raised,            \* TRUE when an exception left the handler that ran last
    opened_url,        \* URLs handed to QDesktopServices.openUrl by that handler
    kml_files,         \* files written by that handler
    save_dialog,       \* TRUE when that handler opened the save-file dialog
    message_box_icon,  \* icon of the shared message box (self.message_box)
    call,              \* validator under test: its arguments
    ret                \* validator under test: its return value

vars == <<version, markers, map_widget, eovtowgs_output, wgstoeov_output,
          handler, shown, raised, opened_url, kml_files, save_dialog,
          message_box_icon, call, ret>>

(***************************************************************************)
(* Bounds of the model.                                                    *)
(***************************************************************************)
MaxLen == 3        \* longest enumerated EOV field text
MaxWgsLen == 5     \* longest enumerated WGS field text
MaxPoints == 2     \* most points accumulated between two clears

(***************************************************************************)
(* Texts.                                                                  *)
(***************************************************************************)
Chars == {"1", ",", "a", " ", "n"}

TextsUpTo(n) == UNION {[1..k -> Chars] : k \in 0..n}

Whitespace == {" ", "\t", "\n", "\r"}

Digits == {"0", "1", "2", "3", "4", "5", "6", "7", "8", "9"}

\* the hints set with setPlaceholderText and compared by the validators
PlaceholderY == <<"p", "l", ".", ":", " ", "6", "5", "0", "0", "0", "0">>
PlaceholderX == <<"p", "l", ".", ":", " ", "2", "4", "0", "0", "0", "0">>
PlaceholderWgs ==
    <<"p", "l", ".", ":", " ", "4", "7", ".", "5", "0", "3", "9", "3", "2",
      "0", "8", ",", " ", "1", "9", ".", "0", "4", "7", "4", "4", "4", "7">>

Contains(s, c) == \E i \in 1..Len(s) : s[i] = c

\* str.strip()
RECURSIVE LStrip(_)
LStrip(s) == IF s # <<>> /\ Head(s) \in Whitespace THEN LStrip(Tail(s)) ELSE s

RECURSIVE RStrip(_)
RStrip(s) ==
    IF s # <<>> /\ s[Len(s)] \in Whitespace
    THEN RStrip(SubSeq(s, 1, Len(s) - 1))
    ELSE s

Strip(s) == RStrip(LStrip(s))

\* str.replace(c, "")
RECURSIVE Remove(_, _)
Remove(s, c) ==
    IF s = <<>> THEN <<>>
    ELSE IF Head(s) = c THEN Remove(Tail(s), c)
    ELSE <<Head(s)>> \o Remove(Tail(s), c)

\* str.split(c): always at least one token, empty tokens kept
RECURSIVE Split(_, _)
Split(s, c) ==
    IF ~Contains(s, c) THEN <<s>>
    ELSE LET i == CHOOSE j \in 1..Len(s) :
                      s[j] = c /\ \A k \in 1..(j - 1) : s[k] # c
         IN <<SubSeq(s, 1, i - 1)>> \o Split(SubSeq(s, i + 1, Len(s)), c)

(***************************************************************************)
(* Python's float(text).                                                   *)
(***************************************************************************)
Lower(c) ==
    CASE c = "I" -> "i" [] c = "N" -> "n" [] c = "F" -> "f" [] c = "A" -> "a"
      [] c = "T" -> "t" [] c = "Y" -> "y" [] c = "E" -> "e" [] OTHER -> c

LowerText(s) == [i \in 1..Len(s) |-> Lower(s[i])]

Unsigned(s) == IF s # <<>> /\ Head(s) \in {"+", "-"} THEN Tail(s) ELSE s

IsNegative(s) == s # <<>> /\ Head(s) = "-"

\* digitpart ::= digit (["_"] digit)*
IsDigitPart(d) ==
    /\ d # <<>>
    /\ d[1] \in Digits
    /\ d[Len(d)] \in Digits
    /\ \A i \in 1..Len(d) : d[i] \in Digits \cup {"_"}
    /\ \A i \in 1..(Len(d) - 1) : ~(d[i] = "_" /\ d[i + 1] = "_")

\* number ::= [digitpart] "." digitpart | digitpart ["."]
IsNumber(n) ==
    \/ IsDigitPart(n)
    \/ \E i \in 1..Len(n) :
          /\ n[i] = "."
          /\ LET a == SubSeq(n, 1, i - 1)
                 b == SubSeq(n, i + 1, Len(n))
             IN /\ a = <<>> \/ IsDigitPart(a)
                /\ b = <<>> \/ IsDigitPart(b)
                /\ ~(a = <<>> /\ b = <<>>)

\* exponent ::= ("e" | "E") [sign] digitpart
IsExponent(x) == x # <<>> /\ Head(x) \in {"e", "E"} /\ IsDigitPart(Unsigned(Tail(x)))

ExponentAt(u) ==
    IF \E i \in 1..Len(u) : u[i] \in {"e", "E"}
    THEN CHOOSE i \in 1..Len(u) :
             u[i] \in {"e", "E"} /\ \A k \in 1..(i - 1) : u[k] \notin {"e", "E"}
    ELSE Len(u) + 1

IsFloatNumber(u) ==
    LET i == ExponentAt(u)
    IN /\ IsNumber(SubSeq(u, 1, i - 1))
       /\ i > Len(u) \/ IsExponent(SubSeq(u, i, Len(u)))

IsInfinity(u) == LowerText(u) \in {<<"i", "n", "f">>,
                                   <<"i", "n", "f", "i", "n", "i", "t", "y">>}

IsNan(u) == LowerText(u) = <<"n", "a", "n">>

\* float(text) does not raise ValueError
IsFloatText(s) ==
    LET u == Unsigned(Strip(s))
    IN IsFloatNumber(u) \/ IsInfinity(u) \/ IsNan(u)

DigitValue(c) ==
    CASE c = "0" -> 0 [] c = "1" -> 1 [] c = "2" -> 2 [] c = "3" -> 3
      [] c = "4" -> 4 [] c = "5" -> 5 [] c = "6" -> 6 [] c = "7" -> 7
      [] c = "8" -> 8 [] c = "9" -> 9 [] OTHER -> 0

\* the natural number written by the digits of d (other characters skipped)
RECURSIVE NatOf(_, _)
NatOf(d, acc) ==
    IF d = <<>> THEN acc
    ELSE IF Head(d) \in Digits THEN NatOf(Tail(d), 10 * acc + DigitValue(Head(d)))
    ELSE NatOf(Tail(d), acc)

RECURSIVE CountDigits(_)
CountDigits(d) ==
    IF d = <<>> THEN 0
    ELSE (IF Head(d) \in Digits THEN 1 ELSE 0) + CountDigits(Tail(d))

RECURSIVE Normal(_, _)
Normal(m, e) ==
    IF m = 0 THEN <<0, 0>>
    ELSE IF m % 10 = 0 THEN Normal(m \div 10, e + 1)
    ELSE <<m, e>>

RECURSIVE NatDigits(_)
NatDigits(m) == IF m < 10 THEN 1 ELSE 1 + NatDigits(m \div 10)

MaxDecimalExponent == 308   \* sys.float_info.max_10_exp

Float(cls, neg, m, e) == [cls |-> cls, neg |-> neg, m |-> m, e |-> e, src |-> <<>>]

\* float(text) for a text that IsFloatText
FloatOf(s) ==
    LET t == Strip(s)
        u == Unsigned(t)
        neg == IsNegative(t)
    IN IF IsNan(u) THEN Float("nan", FALSE, 0, 0)
       ELSE IF IsInfinity(u) THEN Float("inf", neg, 0, 0)
       ELSE LET i == ExponentAt(u)
                num == SubSeq(u, 1, i - 1)
                ex == IF i > Len(u) THEN <<>> ELSE SubSeq(u, i + 1, Len(u))
                dot == IF Contains(num, ".")
                       THEN CHOOSE j \in 1..Len(num) : num[j] = "."
                       ELSE Len(num) + 1
                frac == CountDigits(SubSeq(num, dot + 1, Len(num)))
                exv == (IF IsNegative(ex) THEN -1 ELSE 1) * NatOf(ex, 0)
                n == Normal(NatOf(num, 0), exv - frac)
            IN IF n[1] # 0 /\ NatDigits(n[1]) + n[2] - 1 > MaxDecimalExponent
               THEN Float("inf", neg, 0, 0)
               ELSE Float("fin", neg, n[1], n[2])

(***************************************************************************)
(* CoordinateValidator (main_refactored.py).  The messages are the         *)
(* source's, without accents.                                              *)
(***************************************************************************)
MsgMissingY == "EOVy koordinatat ki kell tolteni"
MsgMissingX == "EOVx koordinatat ki kell tolteni"
MsgComma == "tizedes pontot kell hasznalni nem vesszot"
MsgInvalid == "Ervenytelen koordinatak"
MsgMissingWgs == "Koordinatakat ki kell tolteni"
MsgBadFormat == "Ervenytelen koordinata formatum"

NoCoords == <<>>     \* None

\* variants of validate_eov_coordinates with one check lost
validate_eov_without_placeholder(y_input, x_input) ==
    IF y_input = <<>> THEN <<FALSE, MsgMissingY>>
    ELSE IF Contains(y_input, ",") THEN <<FALSE, MsgComma>>
    ELSE IF x_input = <<>> THEN <<FALSE, MsgMissingX>>
    ELSE IF Contains(x_input, ",") THEN <<FALSE, MsgComma>>
    ELSE IF ~IsFloatText(y_input) \/ ~IsFloatText(x_input) THEN <<FALSE, MsgInvalid>>
    ELSE <<TRUE, "">>

validate_eov_without_x_comma(y_input, x_input) ==
    IF y_input = <<>> \/ y_input = PlaceholderY THEN <<FALSE, MsgMissingY>>
    ELSE IF Contains(y_input, ",") THEN <<FALSE, MsgComma>>
    ELSE IF x_input = <<>> \/ x_input = PlaceholderX THEN <<FALSE, MsgMissingX>>
    ELSE IF ~IsFloatText(y_input) \/ ~IsFloatText(x_input) THEN <<FALSE, MsgInvalid>>
    ELSE <<TRUE, "">>

validate_eov_parsing_y_only(y_input, x_input) ==
    IF y_input = <<>> \/ y_input = PlaceholderY THEN <<FALSE, MsgMissingY>>
    ELSE IF Contains(y_input, ",") THEN <<FALSE, MsgComma>>
    ELSE IF x_input = <<>> \/ x_input = PlaceholderX THEN <<FALSE, MsgMissingX>>
    ELSE IF Contains(x_input, ",") THEN <<FALSE, MsgComma>>
    ELSE IF ~IsFloatText(y_input) THEN <<FALSE, MsgInvalid>>
    ELSE <<TRUE, "">>

validate_eov_coordinates(y_input, x_input) ==
    IF y_input = <<>> \/ y_input = PlaceholderY THEN <<FALSE, MsgMissingY>>
    ELSE IF Contains(y_input, ",") THEN <<FALSE, MsgComma>>
    ELSE IF x_input = <<>> \/ x_input = PlaceholderX THEN <<FALSE, MsgMissingX>>
    ELSE IF Contains(x_input, ",") THEN <<FALSE, MsgComma>>
    ELSE IF ~IsFloatText(y_input) \/ ~IsFloatText(x_input) THEN <<FALSE, MsgInvalid>>
    ELSE <<TRUE, "">>

\* variant of validate_wgs_coordinates that parses the first two tokens before
\* it counts them
validate_wgs_parsing_first(wgs_input) ==
    IF wgs_input = <<>> \/ wgs_input = PlaceholderWgs
    THEN <<FALSE, MsgMissingWgs, NoCoords>>
    ELSE LET input_data == Split(Remove(wgs_input, " "), ",")
         IN IF Len(input_data) >= 2
               /\ (~IsFloatText(input_data[1]) \/ ~IsFloatText(input_data[2]))
            THEN <<FALSE, MsgInvalid, NoCoords>>
            ELSE IF Len(input_data) # 2 THEN <<FALSE, MsgBadFormat, NoCoords>>
            ELSE <<TRUE, "", <<FloatOf(input_data[1]), FloatOf(input_data[2])>>>>

\* variant of validate_wgs_coordinates whose format failure carries no message
validate_wgs_without_format_message(wgs_input) ==
    IF wgs_input = <<>> \/ wgs_input = PlaceholderWgs
    THEN <<FALSE, MsgMissingWgs, NoCoords>>
    ELSE LET input_data == Split(Remove(wgs_input, " "), ",")
         IN IF Len(input_data) # 2 THEN <<FALSE, "", NoCoords>>
            ELSE IF ~IsFloatText(input_data[1]) \/ ~IsFloatText(input_data[2])
            THEN <<FALSE, MsgInvalid, NoCoords>>
            ELSE <<TRUE, "", <<FloatOf(input_data[1]), FloatOf(input_data[2])>>>>

validate_wgs_coordinates(wgs_input) ==
    IF wgs_input = <<>> \/ wgs_input = PlaceholderWgs
    THEN <<FALSE, MsgMissingWgs, NoCoords>>
    ELSE LET input_data == Split(Remove(wgs_input, " "), ",")
         IN IF Len(input_data) # 2 THEN <<FALSE, MsgBadFormat, NoCoords>>
            ELSE IF ~IsFloatText(input_data[1]) \/ ~IsFloatText(input_data[2])
            THEN <<FALSE, MsgInvalid, NoCoords>>
            ELSE <<TRUE, "", <<FloatOf(input_data[1]), FloatOf(input_data[2])>>>>

(***************************************************************************)
(* Formatted text: a sequence of parts.  A part is one literal piece of    *)
(* text (markup is kept character by character, so that str.replace can    *)
(* be computed) or one formatted number.                                   *)
(***************************************************************************)
Lit(s) == [k |-> "lit", s |-> s, v |-> <<>>]

Num(k, f) == [k |-> k, s |-> "", v |-> <<f>>]

Chr(text) == [i \in 1..Len(text) |-> Lit(text[i])]

TagB == <<Lit("<"), Lit("b"), Lit(">")>>
TagEndB == <<Lit("<"), Lit("/"), Lit("b"), Lit(">")>>
TagBr == <<Lit("<"), Lit("b"), Lit("r"), Lit(">")>>

NoText == <<>>

\* files written: none, or one file with its Placemark elements
NoFile == <<>>

File(name, placemarks) == <<[name |-> name, placemarks |-> placemarks]>>

(***************************************************************************)
(* MapConfig, CoordinateConfig.                                            *)
(***************************************************************************)
DEFAULT_ZOOM == 13

\* numerals of the source too long for the model's integers are kept as the
\* class of the float
DEFAULT_LOCATION == <<Float("47.504105491592426", FALSE, 0, 0),
                      Float("19.046773410517797", FALSE, 0, 0)>>

(***************************************************************************)
(* CoordinateConverter: the two transforms of the projection library.      *)
(***************************************************************************)
Projected(cls, a, b) == [cls |-> cls, neg |-> FALSE, m |-> 0, e |-> 0, src |-> <<a, b>>]

\* variant of eov_to_wgs that returns its arguments
eov_to_wgs_unprojected(eov_y, eov_x) == <<eov_y, eov_x>>

eov_to_wgs(eov_y, eov_x) == <<Projected("lat", eov_y, eov_x), Projected("lon", eov_y, eov_x)>>

wgs_to_eov(lat, lon) == <<Projected("eovy", lat, lon), Projected("eovx", lat, lon)>>

(***************************************************************************)
(* MapManager.                                                             *)
(***************************************************************************)
Child(kind, location, popup, tooltip, html) ==
    [kind |-> kind, location |-> location, popup |-> popup,
     tooltip |-> tooltip, html |-> html]

ClickForMarker == Child("ClickForMarker", <<>>, NoText, NoText, NoText)

\* nothing has been handed to the display widget
NoMap == [location |-> <<>>, zoom_start |-> 0, children |-> <<>>]

create_map(location, zoom) ==
    [location |-> location,
     zoom_start |-> IF zoom = 0 THEN DEFAULT_ZOOM ELSE zoom,
     children |-> <<ClickForMarker>>]

\* the elements folium draws for one point
MarkerElements(location, popup, tooltip, point_name) ==
    IF point_name # <<>>
    THEN <<Child("IconMarker", location, popup, tooltip, NoText),
           Child("DivIconMarker", location, Chr(point_name), NoText, Chr(point_name))>>
    ELSE <<Child("Marker", location, popup, tooltip, NoText)>>

marker_data(location, popup, tooltip, point_name) ==
    [location |-> location, popup |-> popup, tooltip |-> tooltip,
     point_name |-> point_name]

\* self.markers after add_marker_with_name
add_marker_with_name_markers(ms, location, popup, tooltip, point_name) ==
    Append(ms, marker_data(location, popup, tooltip, point_name))

\* map_obj after add_marker_with_name
add_marker_with_name(map_obj, location, popup, tooltip, point_name) ==
    [map_obj EXCEPT !.children =
        @ \o MarkerElements(location, popup, tooltip, point_name)]

RECURSIVE AllElements(_)
AllElements(ms) ==
    IF ms = <<>> THEN <<>>
    ELSE MarkerElements(Head(ms).location, Head(ms).popup, Head(ms).tooltip,
                        Head(ms).point_name) \o AllElements(Tail(ms))

\* map_obj after add_all_markers_to_map
add_all_markers_to_map(map_obj, ms) ==
    [map_obj EXCEPT !.children = @ \o AllElements(ms)]

\* variant of clear_all_markers that removes one entry
clear_first_marker(ms) == IF ms = <<>> THEN <<>> ELSE Tail(ms)

\* MapManager.clear_all_markers
clear_all_markers_markers(ms) == <<>>

\* the document is the serialised map; serialisation keeps it whole
save_map_to_html(map_obj) == map_obj

(***************************************************************************)
(* Message boxes.                                                          *)
(***************************************************************************)
Box(icon, text) == [icon |-> icon, text |-> text]

\* variant of show_error that sets the text and never shows the box
show_error_unshown(boxes, message) == boxes

\* EOVWGSConverterDialog.show_error: the boxes shown so far by the handler,
\* plus the shared Critical box with this text
show_error(boxes, message) == Append(boxes, Box("Critical", message))

\* EOVWGSConverterDialog.show_info
show_info(boxes, message) == Append(boxes, Box("Information", message))

\* Ui_Dialog (eov-wgs.py, main_improved.py): self.message_box.setText(text);
\* self.message_box.show(): the shared box is shown with the icon it has
message_box_show(boxes, icon, text) == Append(boxes, Box(icon, text))

MsgException == "Hiba tortent"
MsgMapUpdate == "Hiba a terkep frissiteseben"
MsgInitialMap == "Hiba a kezdeti terkep letrehozasaban"
MsgNoPoints == "Nincsenek pontok az exportalashoz"
MsgKmlSaved == "KML fajl sikeresen mentve"

\* EOVWGSConverterDialog.update_map_display
update_map_display(html_content) == html_content

Handler(name, valid, fault) == [name |-> name, valid |-> valid, fault |-> fault]

Refactored == "main_refactored.py"
Improved == "main_improved.py"
Original == "eov-wgs.py"

(***************************************************************************)
(* Inputs of the dialog: what the user has typed into the fields when a    *)
(* button is clicked, and what the collaborators do during the handler     *)
(* ("none": every call returns; otherwise the named call raises).          *)
(***************************************************************************)
Typed(y, x, name) == [y |-> y, x |-> x, name |-> name]

\* the EOVy, EOVx and point-name fields
EovInputs == {Typed(<<"1">>, <<"1">>, <<>>), Typed(<<"1">>, <<"1">>, <<" ">>),
              Typed(<<"2">>, <<"1">>, <<" ", "<", "i", ">">>),
              Typed(<<>>, <<"1">>, <<>>), Typed(<<"1">>, <<>>, <<"A">>),
              Typed(<<"1", ",", "5">>, <<"1">>, <<>>), Typed(<<"a">>, <<"1">>, <<>>),
              Typed(PlaceholderY, <<"1">>, <<>>)}

WgsInputs == {<<>>, <<"1", ",", " ", "2">>, <<"1">>,
              <<"1", ",", "2", ",", "1">>, <<"a", ",", "1">>, PlaceholderWgs}

FileNames == {"", "pontok.kml"}     \* "": the save dialog was cancelled

\* a raise of add_marker_with_name (after its append) or of
\* add_all_markers_to_map has the effect of a raise of save_map_to_html
ShowMapFaults == {"none", "eov_to_wgs", "create_map", "save_map_to_html"}

GoogleFaults == {"none", "eov_to_wgs"}

WgsFaults == {"none", "wgs_to_eov"}

ClearFaults == {"none", "create_map", "save_map_to_html"}

ExportFaults == {"none", "open", "write"}

(***************************************************************************)
(* Texts built by the handlers of main_refactored.py.                      *)
(***************************************************************************)
\* f"WGS84 coords: {coords}"
WgsResultText(coords) ==
    <<Lit("WGS84 coords: ("), Num("repr", coords[1]), Lit(", "),
      Num("repr", coords[2]), Lit(")")>>

\* f"EOV koordinatak Y,X: {eovyfinal},{eovxfinal}"
EovResultText(eov_coords) ==
    <<Lit("EOV koordinatak Y,X: "), Num("%.2f", eov_coords[1]), Lit(","),
      Num("%.2f", eov_coords[2])>>

PointTooltip(point_name, coords) ==
    IF point_name # <<>>
    THEN Chr(point_name) \o TagBr
           \o <<Num("%.5f", coords[1]), Lit(", "), Num("%.5f", coords[2])>>
    ELSE <<Num("%.5f", coords[1]), Lit(", "), Num("%.5f", coords[2])>>

PointPopup(point_name, input_data_y, input_data_x) ==
    IF point_name # <<>>
    THEN TagB \o Chr(point_name) \o TagEndB \o TagBr
           \o <<Lit("EOVY: "), Num("repr", input_data_y)>> \o TagBr
           \o <<Lit("EOVX: "), Num("repr", input_data_x)>>
    ELSE TagB \o <<Lit("EOVY: "), Num("repr", input_data_y)>> \o TagBr
           \o <<Lit("EOVX: "), Num("repr", input_data_x)>> \o TagEndB

\* variant of the Google Maps URL with the longitude first
GoogleUrl_lon_first(point_name, coords) ==
    IF point_name # <<>>
    THEN <<Lit("https://www.google.hu/maps/?q=")>> \o Chr(point_name)
           \o <<Lit("@"), Num("str", coords[2]), Lit(","), Num("str", coords[1]),
                Lit("&t=k&hl=hu&z=100")>>
    ELSE <<Lit("https://www.google.hu/maps/?q=loc:"), Num("str", coords[2]),
           Lit(","), Num("str", coords[1]), Lit("&t=k&hl=hu&z=100")>>

\* the Google Maps URL
GoogleUrl(point_name, coords) ==
    IF point_name # <<>>
    THEN <<Lit("https://www.google.hu/maps/?q=")>> \o Chr(point_name)
           \o <<Lit("@"), Num("str", coords[1]), Lit(","), Num("str", coords[2]),
                Lit("&t=k&hl=hu&z=100")>>
    ELSE <<Lit("https://www.google.hu/maps/?q=loc:"), Num("str", coords[1]),
           Lit(","), Num("str", coords[2]), Lit("&t=k&hl=hu&z=100")>>

(***************************************************************************)
(* EOVWGSConverterDialog.convert_eov_to_wgs_and_show_map                   *)
(***************************************************************************)
\* variant of convert_eov_to_wgs_and_show_map that writes the result field
\* last, after the map has been pushed
convert_eov_to_wgs_and_show_map_formatting_last(y_input, x_input, name_input, fault) ==
    LET v == validate_eov_coordinates(y_input, x_input)
        input_data_y == FloatOf(y_input)
        input_data_x == FloatOf(x_input)
        coords == eov_to_wgs(input_data_y, input_data_x)
        point_name == Strip(name_input)
        tooltip == PointTooltip(point_name, coords)
        popup == PointPopup(point_name, input_data_y, input_data_x)
        map0 == create_map(coords, 0)
        map1 == add_marker_with_name(map0, coords, popup, tooltip, point_name)
        stored == add_marker_with_name_markers(markers, coords, popup, tooltip, point_name)
        map2 == add_all_markers_to_map(map1, stored)
        f == IF v[1] THEN fault ELSE "none"
    IN /\ version = Refactored
       /\ v[1] /\ f \notin {"eov_to_wgs", "create_map"} => Len(markers) < MaxPoints
       /\ handler' = Handler("convert_eov_to_wgs_and_show_map", v[1], f)
       /\ raised' = FALSE
       /\ shown' = IF ~v[1] THEN show_error(<<>>, v[2])
                   ELSE IF f # "none" THEN show_error(<<>>, MsgException)
                   ELSE <<>>
       /\ eovtowgs_output' = IF v[1] /\ f = "none"
                             THEN WgsResultText(coords)
                             ELSE eovtowgs_output
       /\ markers' = IF v[1] /\ f \notin {"eov_to_wgs", "create_map"}
                     THEN stored
                     ELSE markers
       /\ map_widget' = IF v[1] /\ f = "none"
                        THEN update_map_display(save_map_to_html(map2))
                        ELSE map_widget
       /\ opened_url' = <<>>
       /\ kml_files' = NoFile
       /\ save_dialog' = FALSE
       /\ message_box_icon' = message_box_icon
       /\ UNCHANGED <<version, wgstoeov_output, call, ret>>

convert_eov_to_wgs_and_show_map(y_input, x_input, name_input, fault) ==
    LET v == validate_eov_coordinates(y_input, x_input)
        input_data_y == FloatOf(y_input)
        input_data_x == FloatOf(x_input)
        coords == eov_to_wgs(input_data_y, input_data_x)
        point_name == Strip(name_input)
        tooltip == PointTooltip(point_name, coords)
        popup == PointPopup(point_name, input_data_y, input_data_x)
        map0 == create_map(coords, 0)
        map1 == add_marker_with_name(map0, coords, popup, tooltip, point_name)
        stored == add_marker_with_name_markers(markers, coords, popup, tooltip, point_name)
        map2 == add_all_markers_to_map(map1, stored)
        f == IF v[1] THEN fault ELSE "none"
    IN /\ version = Refactored
       /\ v[1] /\ f \notin {"eov_to_wgs", "create_map"} => Len(markers) < MaxPoints
       /\ handler' = Handler("convert_eov_to_wgs_and_show_map", v[1], f)
       /\ raised' = FALSE
       /\ shown' = IF ~v[1] THEN show_error(<<>>, v[2])
                   ELSE IF f # "none" THEN show_error(<<>>, MsgException)
                   ELSE <<>>
       /\ eovtowgs_output' = IF v[1] /\ f # "eov_to_wgs"
                             THEN WgsResultText(coords)
                             ELSE eovtowgs_output
       /\ markers' = IF v[1] /\ f \notin {"eov_to_wgs", "create_map"}
                     THEN stored
                     ELSE markers
       /\ map_widget' = IF v[1] /\ f = "none"
                        THEN update_map_display(save_map_to_html(map2))
                        ELSE map_widget
       /\ opened_url' = <<>>
       /\ kml_files' = NoFile
       /\ save_dialog' = FALSE
       /\ message_box_icon' = message_box_icon
       /\ UNCHANGED <<version, wgstoeov_output, call, ret>>

(***************************************************************************)
(* EOVWGSConverterDialog.convert_eov_to_wgs_and_open_google                *)
(***************************************************************************)
\* variant of convert_eov_to_wgs_and_open_google that also stores the point
convert_eov_to_wgs_and_open_google_storing(y_input, x_input, name_input, fault) ==
    LET v == validate_eov_coordinates(y_input, x_input)
        coords == eov_to_wgs(FloatOf(y_input), FloatOf(x_input))
        point_name == Strip(name_input)
        f == IF v[1] THEN fault ELSE "none"
        done == v[1] /\ f = "none"
    IN /\ version = Refactored
       /\ handler' = Handler("convert_eov_to_wgs_and_open_google", v[1], f)
       /\ raised' = FALSE
       /\ shown' = IF ~v[1] THEN show_error(<<>>, v[2])
                   ELSE IF f # "none" THEN show_error(<<>>, MsgException)
                   ELSE <<>>
       /\ eovtowgs_output' = IF done THEN WgsResultText(coords) ELSE eovtowgs_output
       /\ markers' = IF done /\ Len(markers) < MaxPoints
                     THEN add_marker_with_name_markers(markers, coords, NoText, NoText,
                                                       point_name)
                     ELSE markers
       /\ opened_url' = IF done THEN <<GoogleUrl(point_name, coords)>> ELSE <<>>
       /\ kml_files' = NoFile
       /\ save_dialog' = FALSE
       /\ message_box_icon' = message_box_icon
       /\ UNCHANGED <<version, map_widget, wgstoeov_output, call, ret>>

convert_eov_to_wgs_and_open_google(y_input, x_input, name_input, fault) ==
    LET v == validate_eov_coordinates(y_input, x_input)
        coords == eov_to_wgs(FloatOf(y_input), FloatOf(x_input))
        point_name == Strip(name_input)
        f == IF v[1] THEN fault ELSE "none"
        done == v[1] /\ f = "none"
    IN /\ version = Refactored
       /\ handler' = Handler("convert_eov_to_wgs_and_open_google", v[1], f)
       /\ raised' = FALSE
       /\ shown' = IF ~v[1] THEN show_error(<<>>, v[2])
                   ELSE IF f # "none" THEN show_error(<<>>, MsgException)
                   ELSE <<>>
       /\ eovtowgs_output' = IF done THEN WgsResultText(coords) ELSE eovtowgs_output
       /\ opened_url' = IF done THEN <<GoogleUrl(point_name, coords)>> ELSE <<>>
       /\ kml_files' = NoFile
       /\ save_dialog' = FALSE
       /\ message_box_icon' = message_box_icon
       /\ UNCHANGED <<version, markers, map_widget, wgstoeov_output, call, ret>>

(***************************************************************************)
(* EOVWGSConverterDialog.convert_wgs_to_eov                                *)
(***************************************************************************)
\* variant of convert_wgs_to_eov that also stores the converted pair as a point
convert_wgs_to_eov_storing(wgs_input, fault) ==
    LET v == validate_wgs_coordinates(wgs_input)
        eov_coords == wgs_to_eov(v[3][1], v[3][2])
        f == IF v[1] THEN fault ELSE "none"
        done == v[1] /\ f = "none"
    IN /\ version = Refactored
       /\ handler' = Handler("convert_wgs_to_eov", v[1], f)
       /\ raised' = FALSE
       /\ shown' = IF ~v[1] THEN show_error(<<>>, v[2])
                   ELSE IF f # "none" THEN show_error(<<>>, MsgException)
                   ELSE <<>>
       /\ wgstoeov_output' = IF done THEN EovResultText(eov_coords) ELSE wgstoeov_output
       /\ markers' = IF done /\ Len(markers) < MaxPoints
                     THEN add_marker_with_name_markers(markers, eov_coords, NoText,
                                                       NoText, <<>>)
                     ELSE markers
       /\ opened_url' = <<>>
       /\ kml_files' = NoFile
       /\ save_dialog' = FALSE
       /\ message_box_icon' = message_box_icon
       /\ UNCHANGED <<version, map_widget, eovtowgs_output, call, ret>>

convert_wgs_to_eov(wgs_input, fault) ==
    LET v == validate_wgs_coordinates(wgs_input)
        eov_coords == wgs_to_eov(v[3][1], v[3][2])
        f == IF v[1] THEN fault ELSE "none"
        done == v[1] /\ f = "none"
    IN /\ version = Refactored
       /\ handler' = Handler("convert_wgs_to_eov", v[1], f)
       /\ raised' = FALSE
       /\ shown' = IF ~v[1] THEN show_error(<<>>, v[2])
                   ELSE IF f # "none" THEN show_error(<<>>, MsgException)
                   ELSE <<>>
       /\ wgstoeov_output' = IF done THEN EovResultText(eov_coords) ELSE wgstoeov_output
       /\ opened_url' = <<>>
       /\ kml_files' = NoFile
       /\ save_dialog' = FALSE
       /\ message_box_icon' = message_box_icon
       /\ UNCHANGED <<version, markers, map_widget, eovtowgs_output, call, ret>>

(***************************************************************************)
(* EOVWGSConverterDialog.clear_all_markers                                 *)
(***************************************************************************)
clear_all_markers(fault) ==
    LET map_obj == create_map(DEFAULT_LOCATION, 0)
    IN /\ version = Refactored
       /\ handler' = Handler("clear_all_markers", TRUE, fault)
       /\ raised' = FALSE
       /\ markers' = clear_all_markers_markers(markers)
       /\ shown' = IF fault # "none" THEN show_error(<<>>, MsgMapUpdate) ELSE <<>>
       /\ map_widget' = IF fault = "none"
                        THEN update_map_display(save_map_to_html(map_obj))
                        ELSE map_widget
       /\ opened_url' = <<>>
       /\ kml_files' = NoFile
       /\ save_dialog' = FALSE
       /\ message_box_icon' = message_box_icon
       /\ UNCHANGED <<version, eovtowgs_output, wgstoeov_output, call, ret>>

(***************************************************************************)
(* EOVWGSConverterDialog.export_to_kml, generate_kml_content               *)
(***************************************************************************)
\* str.replace(pat, rep) on formatted text
RECURSIVE ReplaceAll(_, _, _)
ReplaceAll(s, pat, rep) ==
    IF Len(s) < Len(pat) THEN s
    ELSE IF SubSeq(s, 1, Len(pat)) = pat
    THEN rep \o ReplaceAll(SubSeq(s, Len(pat) + 1, Len(s)), pat, rep)
    ELSE <<Head(s)>> \o ReplaceAll(Tail(s), pat, rep)

clean_popup(popup) ==
    ReplaceAll(ReplaceAll(ReplaceAll(popup, TagB, <<>>), TagEndB, <<>>),
               TagBr, <<Lit("\n")>>)

IntPart(i) == Num("int", Float("fin", FALSE, i, 0))

\* variant of the Placemark with latitude written first
Placemark_lat_first(i, m) ==
    [name |-> IF m.point_name # <<>>
              THEN Chr(m.point_name)
              ELSE <<Lit("Pont "), IntPart(i + 1)>>,
     description |-> clean_popup(m.popup),
     coordinates |-> <<Num("str", m.location[1]), Lit(","),
                       Num("str", m.location[2]), Lit(",0")>>]

\* variant of the Placemark whose fallback name counts from 0
Placemark_numbered_from_zero(i, m) ==
    [name |-> IF m.point_name # <<>>
              THEN Chr(m.point_name)
              ELSE <<Lit("Pont "), IntPart(i)>>,
     description |-> clean_popup(m.popup),
     coordinates |-> <<Num("str", m.location[2]), Lit(","),
                       Num("str", m.location[1]), Lit(",0")>>]

Placemark(i, m) ==
    [name |-> IF m.point_name # <<>>
              THEN Chr(m.point_name)
              ELSE <<Lit("Pont "), IntPart(i + 1)>>,
     description |-> clean_popup(m.popup),
     coordinates |-> <<Num("str", m.location[2]), Lit(","),
                       Num("str", m.location[1]), Lit(",0")>>]

\* the Placemark elements of the document, in document order
generate_kml_content(ms) == [j \in 1..Len(ms) |-> Placemark(j - 1, ms[j])]

\* variant of export_to_kml that empties the store once the file is written
export_to_kml_clearing(filename, fault) ==
    LET empty == markers = <<>>
        f == IF ~empty /\ filename # "" THEN fault ELSE "none"
        done == ~empty /\ filename # "" /\ f = "none"
    IN /\ version = Refactored
       /\ handler' = Handler("export_to_kml", ~empty, f)
       /\ raised' = FALSE
       /\ shown' = IF empty THEN show_error(<<>>, MsgNoPoints)
                   ELSE IF f # "none" THEN show_error(<<>>, MsgException)
                   ELSE IF done THEN show_info(<<>>, MsgKmlSaved)
                   ELSE <<>>
       /\ kml_files' = IF done THEN File(filename, generate_kml_content(markers))
                       ELSE IF f = "write" THEN File(filename, <<>>)
                       ELSE NoFile
       /\ markers' = IF done THEN clear_all_markers_markers(markers) ELSE markers
       /\ save_dialog' = ~empty
       /\ message_box_icon' = message_box_icon
       /\ opened_url' = <<>>
       /\ UNCHANGED <<version, map_widget, eovtowgs_output,
                      wgstoeov_output, call, ret>>

\* variant of export_to_kml without the empty-store check
export_to_kml_unguarded(filename, fault) ==
    LET f == IF filename # "" THEN fault ELSE "none"
        done == filename # "" /\ f = "none"
    IN /\ version = Refactored
       /\ handler' = Handler("export_to_kml", markers # <<>>, f)
       /\ raised' = FALSE
       /\ shown' = IF f # "none" THEN show_error(<<>>, MsgException)
                   ELSE IF done THEN show_info(<<>>, MsgKmlSaved)
                   ELSE <<>>
       /\ kml_files' = IF done THEN File(filename, generate_kml_content(markers))
                       ELSE IF f = "write" THEN File(filename, <<>>)
                       ELSE NoFile
       /\ save_dialog' = TRUE
       /\ message_box_icon' = message_box_icon
       /\ opened_url' = <<>>
       /\ UNCHANGED <<version, markers, map_widget, eovtowgs_output,
                      wgstoeov_output, call, ret>>

export_to_kml(filename, fault) ==
    LET empty == markers = <<>>
        f == IF ~empty /\ filename # "" THEN fault ELSE "none"
        done == ~empty /\ filename # "" /\ f = "none"
    IN /\ version = Refactored
       /\ handler' = Handler("export_to_kml", ~empty, f)
       /\ raised' = FALSE
       /\ shown' = IF empty THEN show_error(<<>>, MsgNoPoints)
                   ELSE IF f # "none" THEN show_error(<<>>, MsgException)
                   ELSE IF done THEN show_info(<<>>, MsgKmlSaved)
                   ELSE <<>>
       /\ kml_files' = IF done THEN File(filename, generate_kml_content(markers))
                       ELSE IF f = "write" THEN File(filename, <<>>)
                       ELSE NoFile
       /\ save_dialog' = ~empty
       /\ message_box_icon' = message_box_icon
       /\ opened_url' = <<>>
       /\ UNCHANGED <<version, markers, map_widget, eovtowgs_output,
                      wgstoeov_output, call, ret>>

(***************************************************************************)
(* The dialog of main_refactored.py.                                       *)
(***************************************************************************)
NoCall == <<>>
NoRet == <<>>

\* no validator is under test
NoValidatorCall == call = NoCall /\ ret = NoRet

\* EOVWGSConverterDialog.__init__ and create_initial_map
InitDialog(fault) ==
    /\ markers = <<>>
    /\ map_widget = IF fault = "none"
                    THEN update_map_display(save_map_to_html(create_map(DEFAULT_LOCATION, 0)))
                    ELSE NoMap
    /\ eovtowgs_output = NoText
    /\ wgstoeov_output = NoText
    /\ handler = Handler("__init__", TRUE, fault)
    /\ shown = IF fault = "none" THEN <<>> ELSE show_error(<<>>, MsgInitialMap)
    /\ raised = FALSE
    /\ opened_url = <<>>
    /\ kml_files = NoFile
    /\ save_dialog = FALSE
    /\ message_box_icon = "Critical"

Init ==
    /\ version = Refactored
    /\ \E fault \in ClearFaults : InitDialog(fault)
    /\ NoValidatorCall

\* a collaborator is reached, and so can raise, only once validation has passed
Reached(valid, faults) == IF valid THEN faults ELSE {"none"}

ShowMap ==
    \E in \in EovInputs :
        \E f \in Reached(validate_eov_coordinates(in.y, in.x)[1], ShowMapFaults) :
            convert_eov_to_wgs_and_show_map(in.y, in.x, in.name, f)

OpenGoogle ==
    \E in \in EovInputs :
        \E f \in Reached(validate_eov_coordinates(in.y, in.x)[1], GoogleFaults) :
            convert_eov_to_wgs_and_open_google(in.y, in.x, in.name, f)

WgsToEov ==
    \E w \in WgsInputs :
        \E f \in Reached(validate_wgs_coordinates(w)[1], WgsFaults) :
            convert_wgs_to_eov(w, f)

Clear == \E f \in ClearFaults : clear_all_markers(f)

ExportKml == \E name \in FileNames, f \in ExportFaults : export_to_kml(name, f)

Next == ShowMap \/ OpenGoogle \/ WgsToEov \/ Clear \/ ExportKml

Spec == Init /\ [][Next]_vars

(***************************************************************************)
(* The conversion handlers of eov-wgs.py (Ui_Dialog).  Nothing in them     *)
(* catches an exception.                                                   *)
(***************************************************************************)
LegacyFaults == {"none", "transform", "folium"}

\* the four checks at the head of both EOV handlers: "" when they pass
OriginalChecks(y_input, x_input) ==
    IF y_input = <<>> THEN MsgMissingY
    ELSE IF Contains(y_input, ",") THEN MsgComma
    ELSE IF x_input = <<>> THEN MsgMissingX
    ELSE IF Contains(x_input, ",") THEN MsgComma
    ELSE ""

\* the single-marker map of eov-wgs.py and main_improved.py
SingleMarkerMap(coords, popup, tooltip) ==
    [location |-> coords, zoom_start |-> DEFAULT_ZOOM,
     children |-> <<Child("Marker", coords, popup, tooltip, NoText), ClickForMarker>>]

OriginalTooltip(coords) ==
    <<Lit("('"), Num("%.5f", coords[1]), Lit("', '"), Num("%.5f", coords[2]), Lit("')")>>

OriginalPopup(input_data_y, input_data_x) ==
    TagB \o <<Lit("EOVY: "), Num("repr", input_data_y), Lit("\n\tEOVX: "),
              Num("repr", input_data_x)>> \o TagEndB

original_button_clicked_eovtowgsmap(y_input, x_input, fault) ==
    LET msg == OriginalChecks(y_input, x_input)
        parses == IsFloatText(y_input) /\ IsFloatText(x_input)
        input_data_y == FloatOf(y_input)
        input_data_x == FloatOf(x_input)
        coords == eov_to_wgs(input_data_y, input_data_x)
        f == IF msg # "" THEN "none" ELSE IF ~parses THEN "float" ELSE fault
    IN /\ version = Original
       /\ handler' = Handler("button_clicked_eovtowgsmap", msg = "", f)
       /\ shown' = IF msg # "" THEN message_box_show(<<>>, message_box_icon, msg) ELSE <<>>
       /\ raised' = (f # "none")
       /\ eovtowgs_output' = IF msg = "" /\ f \in {"none", "folium"}
                             THEN WgsResultText(coords)
                             ELSE eovtowgs_output
       /\ map_widget' = IF msg = "" /\ f = "none"
                        THEN SingleMarkerMap(coords,
                                 OriginalPopup(input_data_y, input_data_x),
                                 OriginalTooltip(coords))
                        ELSE map_widget
       /\ opened_url' = <<>>
       /\ kml_files' = NoFile
       /\ save_dialog' = FALSE
       /\ message_box_icon' = message_box_icon
       /\ UNCHANGED <<version, markers, wgstoeov_output, call, ret>>

original_button_clicked_eovtogoogle(y_input, x_input, fault) ==
    LET msg == OriginalChecks(y_input, x_input)
        parses == IsFloatText(y_input) /\ IsFloatText(x_input)
        coords == eov_to_wgs(FloatOf(y_input), FloatOf(x_input))
        f == IF msg # "" THEN "none" ELSE IF ~parses THEN "float" ELSE fault
        done == msg = "" /\ f = "none"
    IN /\ version = Original
       /\ fault # "folium"
       /\ handler' = Handler("button_clicked_eovtogoogle", msg = "", f)
       /\ shown' = IF msg # "" THEN message_box_show(<<>>, message_box_icon, msg) ELSE <<>>
       /\ raised' = (f # "none")
       /\ eovtowgs_output' = IF done THEN WgsResultText(coords) ELSE eovtowgs_output
       /\ opened_url' = IF done THEN <<GoogleUrl(<<>>, coords)>> ELSE <<>>
       /\ kml_files' = NoFile
       /\ save_dialog' = FALSE
       /\ message_box_icon' = message_box_icon
       /\ UNCHANGED <<version, markers, map_widget, wgstoeov_output, call, ret>>

\* f"EOV koordinatak Y,X: {eovyfinal},{eovxfinal} "
OriginalEovResultText(eov_coords) == EovResultText(eov_coords) \o <<Lit(" ")>>

original_button_simple_convert_to_eov(wgs_input, fault) ==
    LET empty == wgs_input = <<>>
        output_data == Split(Remove(wgs_input, " "), ",")
        \* output_data[1] raises IndexError; the library raises TypeError for a
        \* text that float() rejects
        f == IF empty THEN "none"
             ELSE IF Len(output_data) < 2 THEN "index"
             ELSE IF ~IsFloatText(output_data[1]) \/ ~IsFloatText(output_data[2])
             THEN "float"
             ELSE fault
        eov_coords == wgs_to_eov(FloatOf(output_data[1]), FloatOf(output_data[2]))
    IN /\ version = Original
       /\ fault # "folium"
       /\ handler' = Handler("button_simple_convert_to_eov", ~empty, f)
       /\ shown' = IF empty THEN message_box_show(<<>>, message_box_icon, MsgMissingWgs) ELSE <<>>
       /\ raised' = (f # "none")
       /\ wgstoeov_output' = IF ~empty /\ f = "none"
                             THEN OriginalEovResultText(eov_coords)
                             ELSE wgstoeov_output
       /\ opened_url' = <<>>
       /\ kml_files' = NoFile
       /\ save_dialog' = FALSE
       /\ message_box_icon' = message_box_icon
       /\ UNCHANGED <<version, markers, map_widget, eovtowgs_output, call, ret>>

(***************************************************************************)
(* The conversion handlers of main_improved.py (Ui_Dialog).                *)
(***************************************************************************)
\* Ui_Dialog.validate_coordinates: <<result, the message it shows itself>>
validate_coordinates(y_input, x_input) ==
    IF y_input = <<>> THEN <<FALSE, MsgMissingY>>
    ELSE IF Contains(y_input, ",") THEN <<FALSE, MsgComma>>
    ELSE IF x_input = <<>> THEN <<FALSE, MsgMissingX>>
    ELSE IF Contains(x_input, ",") THEN <<FALSE, MsgComma>>
    ELSE IF ~IsFloatText(y_input) \/ ~IsFloatText(x_input) THEN <<FALSE, MsgInvalid>>
    ELSE <<TRUE, "">>

ImprovedTooltip(coords) ==
    <<Num("%.5f", coords[1]), Lit(", "), Num("%.5f", coords[2])>>

improved_button_clicked_eovtowgsmap(y_input, x_input, fault) ==
    LET v == validate_coordinates(y_input, x_input)
        input_data_y == FloatOf(y_input)
        input_data_x == FloatOf(x_input)
        coords == eov_to_wgs(input_data_y, input_data_x)
        f == IF v[1] THEN fault ELSE "none"
    IN /\ version = Improved
       /\ handler' = Handler("button_clicked_eovtowgsmap", v[1], f)
       /\ shown' = IF ~v[1] THEN message_box_show(<<>>, message_box_icon, v[2])
                   ELSE IF f # "none" THEN message_box_show(<<>>, message_box_icon, MsgException)
                   ELSE <<>>
       /\ raised' = FALSE
       /\ eovtowgs_output' = IF v[1] /\ f \in {"none", "folium"}
                             THEN WgsResultText(coords)
                             ELSE eovtowgs_output
       /\ map_widget' = IF v[1] /\ f = "none"
                        THEN SingleMarkerMap(coords,
                                 PointPopup(<<>>, input_data_y, input_data_x),
                                 ImprovedTooltip(coords))
                        ELSE map_widget
       /\ opened_url' = <<>>
       /\ kml_files' = NoFile
       /\ save_dialog' = FALSE
       /\ message_box_icon' = message_box_icon
       /\ UNCHANGED <<version, markers, wgstoeov_output, call, ret>>

improved_button_clicked_eovtogoogle(y_input, x_input, fault) ==
    LET v == validate_coordinates(y_input, x_input)
        coords == eov_to_wgs(FloatOf(y_input), FloatOf(x_input))
        f == IF v[1] THEN fault ELSE "none"
        done == v[1] /\ f = "none"
    IN /\ version = Improved
       /\ fault # "folium"
       /\ handler' = Handler("button_clicked_eovtogoogle", v[1], f)
       /\ shown' = IF ~v[1] THEN message_box_show(<<>>, message_box_icon, v[2])
                   ELSE IF f # "none" THEN message_box_show(<<>>, message_box_icon, MsgException)
                   ELSE <<>>
       /\ raised' = FALSE
       /\ eovtowgs_output' = IF done THEN WgsResultText(coords) ELSE eovtowgs_output
       /\ opened_url' = IF done THEN <<GoogleUrl(<<>>, coords)>> ELSE <<>>
       /\ kml_files' = NoFile
       /\ save_dialog' = FALSE
       /\ message_box_icon' = message_box_icon
       /\ UNCHANGED <<version, markers, map_widget, wgstoeov_output, call, ret>>

improved_button_simple_convert_to_eov(wgs_input, fault) ==
    LET empty == wgs_input = <<>>
        input_data == Split(Remove(wgs_input, " "), ",")
        msg == IF empty THEN MsgMissingWgs
               ELSE IF Len(input_data) # 2 THEN MsgBadFormat
               ELSE IF ~IsFloatText(input_data[1]) \/ ~IsFloatText(input_data[2])
               THEN MsgInvalid
               ELSE ""
        f == IF msg = "" THEN fault ELSE "none"
        eov_coords == wgs_to_eov(FloatOf(input_data[1]), FloatOf(input_data[2]))
    IN /\ version = Improved
       /\ fault # "folium"
       /\ handler' = Handler("button_simple_convert_to_eov", msg = "", f)
       /\ shown' = IF msg # "" THEN message_box_show(<<>>, message_box_icon, msg)
                   ELSE IF f # "none" THEN message_box_show(<<>>, message_box_icon, MsgException)
                   ELSE <<>>
       /\ raised' = FALSE
       /\ wgstoeov_output' = IF msg = "" /\ f = "none"
                             THEN EovResultText(eov_coords)
                             ELSE wgstoeov_output
       /\ opened_url' = <<>>
       /\ kml_files' = NoFile
       /\ save_dialog' = FALSE
       /\ message_box_icon' = message_box_icon
       /\ UNCHANGED <<version, markers, map_widget, eovtowgs_output, call, ret>>

(***************************************************************************)
(* The three programs side by side: the version is fixed at start-up and   *)
(* the user clicks the conversion buttons.                                 *)
(***************************************************************************)
\* Ui_Dialog.setupUi: the initial map is built outside any handler
(***************************************************************************)
(* Ui_Dialog.click_handler of main_improved.py: the screenshot button.     *)
(***************************************************************************)
MsgNoScreenshotName == "Adja meg a kepernyofoto nevet"
MsgScreenshotSaved == "Kepernyofoto sikeresen mentve!"
MsgNoWidget == "Nem talalhato a terkep widget"

\* the screenshot-name field, and the path the save dialog returns
ScreenshotNames == {"", "terkep"}

ScreenshotFiles == {"", "terkep.png"}   \* "": the save dialog was cancelled

\* "activeWindow": QApplication.instance().activeWindow() is None
ScreenshotFaults == {"none", "activeWindow"}

\* the file written is the picture of the map widget (it holds no Placemark)
improved_click_handler(found, input_printscreen, filename, fault) ==
    LET asked == fault = "none" /\ found /\ input_printscreen # ""
        saved == asked /\ filename # ""
    IN /\ version = Improved
       /\ handler' = Handler("click_handler", input_printscreen # "", fault)
       /\ raised' = FALSE
       /\ shown' = IF fault # "none"
                   THEN message_box_show(<<>>, message_box_icon, MsgException)
                   ELSE IF ~found
                   THEN message_box_show(<<>>, message_box_icon, MsgNoWidget)
                   ELSE IF input_printscreen = ""
                   THEN message_box_show(<<>>, message_box_icon, MsgNoScreenshotName)
                   ELSE IF saved
                   THEN message_box_show(<<>>, "Information", MsgScreenshotSaved)
                   ELSE <<>>
       /\ message_box_icon' = IF saved THEN "Information" ELSE message_box_icon
       /\ save_dialog' = asked
       /\ kml_files' = IF saved THEN File(filename, <<>>) ELSE NoFile
       /\ opened_url' = <<>>
       /\ UNCHANGED <<version, markers, map_widget, eovtowgs_output,
                      wgstoeov_output, call, ret>>

InitLegacy ==
    /\ markers = <<>>
    /\ map_widget = [location |-> DEFAULT_LOCATION, zoom_start |-> DEFAULT_ZOOM,
                     children |-> <<ClickForMarker>>]
    /\ eovtowgs_output = NoText
    /\ wgstoeov_output = NoText
    /\ handler = Handler("setupUi", TRUE, "none")
    /\ shown = <<>>
    /\ raised = FALSE
    /\ opened_url = <<>>
    /\ kml_files = NoFile
    /\ save_dialog = FALSE
    /\ message_box_icon = "Critical"

InitVersions ==
    /\ \/ version = Refactored /\ \E fault \in ClearFaults : InitDialog(fault)
       \/ version \in {Original, Improved} /\ InitLegacy
    /\ NoValidatorCall

OriginalShowMap ==
    \E in \in EovInputs, f \in LegacyFaults :
        original_button_clicked_eovtowgsmap(in.y, in.x, f)

OriginalGoogle ==
    \E in \in EovInputs, f \in LegacyFaults :
        original_button_clicked_eovtogoogle(in.y, in.x, f)

OriginalWgsToEov ==
    \E w \in WgsInputs, f \in LegacyFaults : original_button_simple_convert_to_eov(w, f)

ImprovedShowMap ==
    \E in \in EovInputs, f \in LegacyFaults :
        improved_button_clicked_eovtowgsmap(in.y, in.x, f)

ImprovedGoogle ==
    \E in \in EovInputs, f \in LegacyFaults :
        improved_button_clicked_eovtogoogle(in.y, in.x, f)

ImprovedWgsToEov ==
    \E w \in WgsInputs, f \in LegacyFaults : improved_button_simple_convert_to_eov(w, f)

ImprovedScreenshot ==
    \E found \in BOOLEAN, name \in ScreenshotNames, file \in ScreenshotFiles,
       f \in ScreenshotFaults :
        improved_click_handler(found, name, file, f)

NextVersions ==
    \/ OriginalShowMap \/ OriginalGoogle \/ OriginalWgsToEov
    \/ ImprovedShowMap \/ ImprovedGoogle \/ ImprovedWgsToEov \/ ImprovedScreenshot
    \/ ShowMap \/ OpenGoogle \/ WgsToEov

SpecVersions == InitVersions /\ [][NextVersions]_vars

(***************************************************************************)
(* The validators applied to a bounded set of field texts.                 *)
(***************************************************************************)
\* numerals outside the enumerated alphabet
Numerals == {<<"1", ".", "5">>, <<"-", "1">>, <<".", "5">>, <<"1", "e", "2">>,
             <<"1", "_", "0">>, <<"i", "n", "f">>, <<"1", "e", "4", "0", "0">>,
             <<"6", "5", "0", "0", "0", "0">>}

EovTexts == TextsUpTo(MaxLen) \cup Numerals \cup {PlaceholderY, PlaceholderX}

WgsTexts == TextsUpTo(MaxWgsLen) \cup {PlaceholderWgs}
                \cup {<<"4", "7", ".", "5", ",", "1", "9", ".", "0", ",", "1">>,
                      <<"4", "7", ".", "5", ",", " ", "1", "9", ".", "0">>}

EovCall(y_input, x_input) == <<"validate_eov_coordinates", y_input, x_input>>

WgsCall(wgs_input) == <<"validate_wgs_coordinates", wgs_input>>

\* a call of Ui_Dialog.validate_coordinates of main_improved.py
ImprovedCall(y_input, x_input) == <<"validate_coordinates", y_input, x_input>>

InitValidator ==
    /\ \/ /\ version = Refactored
          /\ InitDialog("none")
          /\ \/ \E y \in EovTexts, x \in EovTexts : call = EovCall(y, x)
             \/ \E w \in WgsTexts : call = WgsCall(w)
       \/ /\ version = Improved
          /\ InitLegacy
          /\ \E in \in EovInputs : call = ImprovedCall(in.y, in.x)
    /\ ret = NoRet

ValidateEov ==
    /\ ret = NoRet
    /\ call[1] = "validate_eov_coordinates"
    /\ ret' = validate_eov_coordinates(call[2], call[3])
    /\ UNCHANGED <<version, markers, map_widget, eovtowgs_output, wgstoeov_output,
                   handler, shown, raised, opened_url, kml_files,
                   save_dialog, message_box_icon, call>>

ValidateWgs ==
    /\ ret = NoRet
    /\ call[1] = "validate_wgs_coordinates"
    /\ ret' = validate_wgs_coordinates(call[2])
    /\ UNCHANGED <<version, markers, map_widget, eovtowgs_output, wgstoeov_output,
                   handler, shown, raised, opened_url, kml_files,
                   save_dialog, message_box_icon, call>>

\* validate_coordinates sets the text of the shared message box and shows it
\* before it returns False
ValidateImproved ==
    /\ ret = NoRet
    /\ call[1] = "validate_coordinates"
    /\ LET v == validate_coordinates(call[2], call[3])
       IN /\ ret' = <<v[1]>>
          /\ shown' = IF v[1] THEN shown
                      ELSE message_box_show(shown, message_box_icon, v[2])
    /\ UNCHANGED <<version, markers, map_widget, eovtowgs_output, wgstoeov_output,
                   handler, raised, opened_url, kml_files, save_dialog, message_box_icon, call>>

NextValidator == ValidateEov \/ ValidateWgs \/ ValidateImproved

SpecValidator == InitValidator /\ [][NextValidator]_vars

(***************************************************************************)
(* Properties.                                                             *)
(***************************************************************************)
ShowMapName == "convert_eov_to_wgs_and_show_map"

Failed(h) == ~h.valid \/ h.fault # "none"

PointOf(r) == [location |-> r.location, popup |-> r.popup, tooltip |-> r.tooltip]

\* the points drawn on a map, in document order: one per plain or icon marker
DrawnPoints(map_obj) ==
    LET ms == SelectSeq(map_obj.children,
                        LAMBDA c : c.kind \in {"Marker", "IconMarker"})
    IN [i \in 1..Len(ms) |-> PointOf(ms[i])]

StoredPoints(ms) == [i \in 1..Len(ms) |-> PointOf(ms[i])]

DrawnLocations(map_obj) ==
    {map_obj.children[i].location :
        i \in {j \in 1..Len(map_obj.children) :
                 map_obj.children[j].kind \in {"Marker", "IconMarker"}}}

StoredLocations(ms) == {ms[i].location : i \in 1..Len(ms)}

\* C1: after a successful show-map flow the map handed to the display widget
\* holds exactly one point marker per PointStore entry, in insertion order.
C1_OneMarkerPerStoredPoint ==
    (handler.name = ShowMapName /\ ~Failed(handler))
        => DrawnPoints(map_widget) = StoredPoints(markers)

\* C2: after every flow, successful or failed, the locations drawn on the
\* displayed map are the locations held in the PointStore.
C2_DrawnLocationsAreStoredLocations ==
    DrawnLocations(map_widget) = StoredLocations(markers)

C4_NoExceptionLeavesHandler == ~raised

IsEovCall == call # NoCall /\ call[1] = "validate_eov_coordinates" /\ ret # NoRet

IsWgsCall == call # NoCall /\ call[1] = "validate_wgs_coordinates" /\ ret # NoRet

MissingY(y) == y = <<>> \/ y = PlaceholderY

MissingX(x) == x = <<>> \/ x = PlaceholderX

MissingField == {<<FALSE, MsgMissingY>>, <<FALSE, MsgMissingX>>}

\* C5 as claimed: validateEOV fails with MissingField whenever either text
\* is empty or its placeholder, whatever the other text contains.
C5_MissingFieldWhateverTheOther ==
    (IsEovCall /\ (MissingY(call[2]) \/ MissingX(call[3]))) => ret \in MissingField

\* C5 as amended: validateEOV fails with MissingField whenever the EOVy text
\* is empty or its placeholder, and whenever the EOVx text is empty or its
\* placeholder and the EOVy text holds no comma; with a comma in the EOVy
\* text and the EOVx text missing it fails with WrongDecimalSeparator.
C5_MissingField ==
    IsEovCall =>
        /\ MissingY(call[2]) => ret = <<FALSE, MsgMissingY>>
        /\ (~MissingY(call[2]) /\ ~Contains(call[2], ",") /\ MissingX(call[3]))
               => ret = <<FALSE, MsgMissingX>>
        /\ (~MissingY(call[2]) /\ Contains(call[2], ",") /\ MissingX(call[3]))
               => ret = <<FALSE, MsgComma>>

C5_Witness ==
    /\ IsEovCall
    /\ call[2] = PlaceholderY
    /\ Contains(call[3], ",")
    /\ ret = <<FALSE, MsgMissingY>>

\* C6: validateEOV fails with WrongDecimalSeparator whenever both texts are
\* present and one of them holds a comma, also when a text is not numeric.
C6_WrongDecimalSeparator ==
    (/\ IsEovCall
     /\ ~MissingY(call[2])
     /\ ~MissingX(call[3])
     /\ Contains(call[2], ",") \/ Contains(call[3], ","))
        => ret = <<FALSE, MsgComma>>

C6_Witness ==
    /\ IsEovCall
    /\ call[2] = <<"a">>
    /\ call[3] = <<"1", ",", "1">>
    /\ ret = <<FALSE, MsgComma>>

Accepted(y, x) ==
    /\ ~MissingY(y)
    /\ ~MissingX(x)
    /\ ~Contains(y, ",")
    /\ ~Contains(x, ",")
    /\ IsFloatText(y)
    /\ IsFloatText(x)

\* C7: validateEOV returns (True, "") exactly for the pairs of present,
\* comma-free texts that both parse as floats; every other pair fails with a
\* non-empty message, NotNumeric when only the parse fails.
C7_SuccessExactlyForNumericPairs ==
    IsEovCall =>
        /\ ret[1] <=> Accepted(call[2], call[3])
        /\ ret[1] => ret[2] = ""
        /\ ~ret[1] => ret[2] # ""
        /\ (/\ ~MissingY(call[2])
            /\ ~MissingX(call[3])
            /\ ~Contains(call[2], ",")
            /\ ~Contains(call[3], ",")
            /\ ~(IsFloatText(call[2]) /\ IsFloatText(call[3])))
               => ret = <<FALSE, MsgInvalid>>

C7_Witness ==
    /\ IsEovCall
    /\ call[2] = <<"1", ".", "5">>
    /\ call[3] = <<" ", "1", " ">>
    /\ ret = <<TRUE, "">>

Commas(s) == Cardinality({i \in 1..Len(s) : s[i] = ","})

\* the text of s before its first comma and after it, spaces removed
BeforeComma(s) ==
    Remove(SubSeq(s, 1, (CHOOSE i \in 1..Len(s) : s[i] = ",") - 1), " ")

AfterComma(s) ==
    Remove(SubSeq(s, (CHOOSE i \in 1..Len(s) : s[i] = ",") + 1, Len(s)), " ")

\* C8: validateWGS fails with MissingField for an empty or placeholder text;
\* otherwise with BadFormat whenever the text does not split into exactly two
\* tokens, whatever the tokens are, and with NotNumeric when it splits into
\* two tokens of which one does not parse.
C8_WgsFailures ==
    IsWgsCall =>
        LET w == call[2]
        IN /\ (w = <<>> \/ w = PlaceholderWgs) => ret = <<FALSE, MsgMissingWgs, NoCoords>>
           /\ (w # <<>> /\ w # PlaceholderWgs /\ Commas(w) # 1)
                  => ret = <<FALSE, MsgBadFormat, NoCoords>>
           /\ (/\ w # <<>>
               /\ w # PlaceholderWgs
               /\ Commas(w) = 1
               /\ ~IsFloatText(BeforeComma(w)) \/ ~IsFloatText(AfterComma(w)))
                  => ret = <<FALSE, MsgInvalid, NoCoords>>

C8_Witness ==
    /\ IsWgsCall
    /\ call[2] = <<"a", ",", "1", ",", "1">>
    /\ ret = <<FALSE, MsgBadFormat, NoCoords>>

\* C9: every step leaves the PointStore unchanged, empties it in the clear
\* flow, or appends one entry at its end in a show-map flow that succeeded, so
\* that the store is the sequence of points of the successful show-map flows
\* since the last clear.
C9_StoreIsSuccessfulShowMaps ==
    [][markers' # markers =>
          \/ markers' = <<>> /\ handler'.name = "clear_all_markers"
          \/ /\ Len(markers') = Len(markers) + 1
             /\ SubSeq(markers', 1, Len(markers)) = markers
             /\ handler'.name = ShowMapName
             /\ ~Failed(handler')]_vars

\* C10: the clear flow leaves the PointStore empty whatever it held, and a
\* second clear leaves the store as the first one left it.
C10_ClearEmptiesAndIsIdempotent ==
    [][Clear => /\ markers' = <<>>
                /\ handler.name = "clear_all_markers" => markers' = markers]_vars

C10_Witness ==
    /\ handler.name = "clear_all_markers"
    /\ markers = <<>>
    /\ Len(DrawnPoints(map_widget)) >= 2

(***************************************************************************)
(* KML export.                                                             *)
(***************************************************************************)
ExportName == "export_to_kml"

\* C11: export_to_kml over an empty store shows the "no points to export"
\* error and nothing else, opens no save dialog and writes no file (so no
\* document, empty or not, is produced).
C11_EmptyStoreExportIsAnError ==
    handler.name = ExportName /\ markers = <<>> =>
        /\ shown = <<Box("Critical", MsgNoPoints)>>
        /\ ~save_dialog
        /\ kml_files = NoFile
        /\ ~raised

C11_Witness ==
    /\ handler.name = ExportName
    /\ markers = <<>>
    /\ shown = <<Box("Critical", MsgNoPoints)>>
    /\ eovtowgs_output # NoText

\* a document has been written by the export that ran last
Exported ==
    /\ handler.name = ExportName
    /\ handler.fault = "none"
    /\ kml_files # NoFile

ExportedPlacemarks == kml_files[1].placemarks

\* C12: the exported document holds one Placemark per stored point, in the
\* order of the store, and the coordinates of the Placemark of a point
\* stored at (lat, lon) read "lon,lat,0".
C12_OnePlacemarkPerPointLongitudeFirst ==
    Exported =>
        /\ Len(ExportedPlacemarks) = Len(markers)
        /\ \A j \in 1..Len(markers) :
              ExportedPlacemarks[j].coordinates =
                  <<Num("str", markers[j].location[2]), Lit(","),
                    Num("str", markers[j].location[1]), Lit(",0")>>

C12_Witness ==
    /\ Exported
    /\ Len(markers) = 2
    /\ markers[1].location # markers[2].location
    /\ markers[1].location[1] # markers[1].location[2]

\* the <name> a Placemark must carry, with the given fallback word
ExpectedName(word, j) ==
    IF markers[j].point_name # <<>>
    THEN Chr(markers[j].point_name)
    ELSE <<Lit(word), Num("int", Float("fin", FALSE, j, 0))>>

\* C13 as stated: the <name> of a Placemark is the label of the point, or
\* "Point {index+1}" for an unlabelled point at 0-based position index.
C13_FallbackNameIsPoint ==
    Exported =>
        \A j \in 1..Len(markers) :
            ExportedPlacemarks[j].name = ExpectedName("Point ", j)

\* C13 amended: the <name> of a Placemark is the label of the point, or
\* "Pont {index+1}" for an unlabelled point at 0-based position index of
\* the whole store (labelled points are counted too).
C13_FallbackNameIsPont ==
    Exported =>
        \A j \in 1..Len(markers) :
            ExportedPlacemarks[j].name = ExpectedName("Pont ", j)

C13_Witness ==
    /\ Exported
    /\ Len(markers) = 2
    /\ markers[1].point_name # <<>>
    /\ markers[2].point_name = <<>>
    /\ ExportedPlacemarks[2].name = <<Lit("Pont "), IntPart(2)>>

(***************************************************************************)
(* Frame conditions of the flows.                                          *)
(***************************************************************************)
WgsToEovName == "convert_wgs_to_eov"

Succeeded(h) == h.valid /\ h.fault = "none"

\* C14: every run of convert_wgs_to_eov, on valid and on invalid input,
\* leaves the store, the displayed map and the EOV->WGS result field as they
\* were, opens no URL and writes no file; it changes the WGS->EOV result
\* field on success only.
C14_WgsToEovLeavesStoreAndMap ==
    [][handler'.name = WgsToEovName =>
          /\ markers' = markers
          /\ map_widget' = map_widget
          /\ eovtowgs_output' = eovtowgs_output
          /\ opened_url' = <<>> /\ kml_files' = NoFile
          /\ ~Succeeded(handler') => wgstoeov_output' = wgstoeov_output]_vars

C14_Witness ==
    /\ handler.name = WgsToEovName
    /\ Succeeded(handler)
    /\ wgstoeov_output # NoText
    /\ markers # <<>>
    /\ DrawnPoints(map_widget) # <<>>

GoogleName == "convert_eov_to_wgs_and_open_google"

\* C15 as stated: convert_eov_to_wgs_and_open_google leaves the store, the
\* displayed map and both result fields as they were.
C15_OpenGoogleChangesNoState ==
    [][handler'.name = GoogleName =>
          /\ markers' = markers
          /\ map_widget' = map_widget
          /\ eovtowgs_output' = eovtowgs_output
          /\ wgstoeov_output' = wgstoeov_output]_vars

\* C15 amended: convert_eov_to_wgs_and_open_google leaves the store, the
\* displayed map and the WGS->EOV result field as they were; the EOV->WGS
\* result field changes only when validation has passed, and a URL is
\* handed to the open-URL collaborator only then, with the field set.
C15_OpenGoogleLeavesStoreAndMap ==
    [][handler'.name = GoogleName =>
          /\ markers' = markers
          /\ map_widget' = map_widget
          /\ wgstoeov_output' = wgstoeov_output
          /\ eovtowgs_output' # eovtowgs_output => handler'.valid
          /\ opened_url' # <<>> =>
                /\ handler'.valid
                /\ Len(opened_url') = 1
                /\ eovtowgs_output' # NoText]_vars

C15_Witness ==
    /\ handler.name = GoogleName
    /\ Succeeded(handler)
    /\ Len(opened_url) = 1
    /\ eovtowgs_output # NoText
    /\ markers # <<>>
    /\ DrawnPoints(map_widget) # <<>>

ClearName == "clear_all_markers"

StoredFor(in, m) ==
    LET y == FloatOf(in.y)
        x == FloatOf(in.x)
    IN /\ validate_eov_coordinates(in.y, in.x)[1]
       /\ m.location = <<Projected("lat", y, x), Projected("lon", y, x)>>
       /\ m.popup = PointPopup(Strip(in.name), y, x)
       /\ m.point_name = Strip(in.name)

\* C17: every stored location is the (latitude, longitude) pair the
\* projection returned for the validated input of the show-map flow that
\* stored the point (the popup of the point records that input); it is
\* neither the input pair nor a pair returned by wgs_to_eov.
C17_StoredLocationsAreWgs ==
    \A j \in 1..Len(markers) :
        /\ \E in \in EovInputs : StoredFor(in, markers[j])
        /\ markers[j].location[1].cls = "lat"
        /\ markers[j].location[2].cls = "lon"

C17_Witness ==
    /\ handler.name = ShowMapName
    /\ Succeeded(handler)
    /\ Len(markers) = 2
    /\ markers[1].location # markers[2].location
    /\ wgstoeov_output # NoText

(***************************************************************************)
(* The validation routines.                                                *)
(***************************************************************************)
\* C18: a validation routine only returns a result: no step of
\* CoordinateValidator (main_refactored.py) or of validate_coordinates
\* (main_improved.py) shows a message, changes a field or the map, or
\* touches the store.
C18_ValidatorsArePure ==
    [][/\ shown' = shown
       /\ markers' = markers
       /\ map_widget' = map_widget
       /\ eovtowgs_output' = eovtowgs_output
       /\ wgstoeov_output' = wgstoeov_output
       /\ opened_url' = opened_url
       /\ kml_files' = kml_files]_vars

(***************************************************************************)
(* The three versions side by side.                                        *)
(***************************************************************************)
\* how a handler ended: with an error (a message shown or an exception
\* raised) or with the text it wrote into its result field
Error == <<"error">>

Ok(text) == <<"ok", text>>

Ended(field) == IF raised \/ shown # <<>> THEN Error ELSE Ok(field)

EovOutcome == Ended(eovtowgs_output)

WgsOutcome == Ended(wgstoeov_output)

\* the outcome of main_refactored.py for the same texts, every collaborator
\* returning
RefactoredEovOutcome(in) ==
    IF validate_eov_coordinates(in.y, in.x)[1]
    THEN Ok(WgsResultText(eov_to_wgs(FloatOf(in.y), FloatOf(in.x))))
    ELSE Error

RefactoredWgsOutcome(w) ==
    LET v == validate_wgs_coordinates(w)
    IN IF v[1] THEN Ok(EovResultText(wgs_to_eov(v[3][1], v[3][2]))) ELSE Error

\* C20: for the same input text, and every collaborator returning, the
\* EOV->WGS and the WGS->EOV handlers of eov-wgs.py, main_improved.py and
\* main_refactored.py end alike: with the same text in the result field, or
\* all with an error (shown or raised).
C20_VersionsEndAlike ==
    [][/\ \A in \in EovInputs :
             \/ original_button_clicked_eovtowgsmap(in.y, in.x, "none")
             \/ improved_button_clicked_eovtowgsmap(in.y, in.x, "none")
             \/ convert_eov_to_wgs_and_show_map(in.y, in.x, in.name, "none")
             => EovOutcome' = RefactoredEovOutcome(in)
       /\ \A w \in WgsInputs :
             \/ original_button_simple_convert_to_eov(w, "none")
             \/ improved_button_simple_convert_to_eov(w, "none")
             \/ convert_wgs_to_eov(w, "none")
             => WgsOutcome' = RefactoredWgsOutcome(w)]_vars

(***************************************************************************)
(* The order of the steps of the show-map flow.                            *)
(***************************************************************************)
Last(ms) == ms[Len(ms)]

\* C21: the show-map flow validates, converts, writes the result field,
\* appends the point, renders and pushes the map, in this order.  Whatever
\* step raises, the effects that are visible afterwards are those of the
\* steps before it: the converter is reached only after validation passed; a
\* point is appended only after the conversion returned and the result
\* field was written with it; the map is pushed only after the append.  A
\* failed validation leaves the store, the result field and the map as
\* they were.
C21_ShowMapStepsInOrder ==
    [][handler'.name = ShowMapName =>
          /\ ~handler'.valid =>
                /\ handler'.fault = "none"
                /\ markers' = markers
                /\ eovtowgs_output' = eovtowgs_output
                /\ map_widget' = map_widget
          /\ markers' # markers =>
                /\ handler'.valid /\ handler'.fault # "eov_to_wgs"
                /\ Len(markers') = Len(markers) + 1
                /\ SubSeq(markers', 1, Len(markers)) = markers
                /\ Last(markers').location[1].cls = "lat"
                /\ eovtowgs_output' = WgsResultText(Last(markers').location)
          /\ map_widget' # map_widget =>
                /\ markers' # markers
                /\ Last(markers').location \in DrawnLocations(map_widget')]_vars

C21_Witness ==
    /\ handler.name = ShowMapName
    /\ handler.valid /\ handler.fault = "save_map_to_html"
    /\ Len(markers) = 2
    /\ eovtowgs_output = WgsResultText(Last(markers).location)
    /\ Last(markers).location \notin DrawnLocations(map_widget)

(***************************************************************************)
(* The shapes drawn for the stored points.                                 *)
(***************************************************************************)
Shape(kind, location) == <<kind, location>>

\* the shapes on a map, in document order (the click handler is no shape)
DrawnShapes(map_obj) ==
    LET cs == SelectSeq(map_obj.children, LAMBDA c : c.kind # "ClickForMarker")
    IN [i \in 1..Len(cs) |-> Shape(cs[i].kind, cs[i].location)]

\* one plain marker for a point without label, one icon marker and one
\* text overlay at the same location for a point with a label
RECURSIVE ExpectedShapes(_)
ExpectedShapes(ms) ==
    IF ms = <<>> THEN <<>>
    ELSE (IF Head(ms).point_name = <<>>
          THEN <<Shape("Marker", Head(ms).location)>>
          ELSE <<Shape("IconMarker", Head(ms).location),
                 Shape("DivIconMarker", Head(ms).location)>>)
         \o ExpectedShapes(Tail(ms))

\* C22: on the map pushed by a successful show-map flow every stored point
\* is drawn once, as one plain marker when it has no label and as one icon
\* marker plus one text overlay at the same location when it has one; a
\* stored label is trimmed, so a label of whitespace only is stored as absent.
C22_ShapeChosenByLabel ==
    /\ \A j \in 1..Len(markers) : markers[j].point_name = Strip(markers[j].point_name)
    /\ handler.name = ShowMapName /\ Succeeded(handler) =>
          DrawnShapes(map_widget) = ExpectedShapes(markers)

(***************************************************************************)
(* The description of a Placemark.                                         *)
(***************************************************************************)
\* a text holds no markup tag when it holds no "<"
NoMarkup(text) == \A k \in 1..Len(text) : text[k] # Lit("<")

\* C23: in the exported document the <description> of every Placemark is
\* the popup of its point with the markup stripped: it holds no markup tag,
\* also when the label of the point holds markup characters.
C23_DescriptionHasNoMarkup ==
    Exported =>
        \A j \in 1..Len(markers) : NoMarkup(ExportedPlacemarks[j].description)

(***************************************************************************)
(* The URL of the Google flow.                                             *)
(***************************************************************************)
UrlHead == Lit("https://www.google.hu/maps/?q=")

UrlLocHead == Lit("https://www.google.hu/maps/?q=loc:")

UrlTail == Lit("&t=k&hl=hu&z=100")

\* C24: the Google flow of main_refactored.py opens one URL when validation
\* and conversion succeed and none otherwise; the URL carries the converted
\* latitude, then the longitude, as "?q=loc:{lat},{lon}" when the trimmed
\* label is empty and as "?q={label}@{lat},{lon}" when it is not.
C24_GoogleUrlShape ==
    [][\A in \in EovInputs, f \in GoogleFaults :
          convert_eov_to_wgs_and_open_google(in.y, in.x, in.name, f) =>
              LET lat == Projected("lat", FloatOf(in.y), FloatOf(in.x))
                  lon == Projected("lon", FloatOf(in.y), FloatOf(in.x))
                  label == Strip(in.name)
                  place == <<Num("str", lat), Lit(","), Num("str", lon), UrlTail>>
              IN IF validate_eov_coordinates(in.y, in.x)[1] /\ f = "none"
                 THEN opened_url' =
                        IF label = <<>>
                        THEN <<(<<UrlLocHead>> \o place)>>
                        ELSE <<(<<UrlHead>> \o Chr(label) \o <<Lit("@")>> \o place)>>
                 ELSE opened_url' = <<>>]_vars

C24_Witness ==
    /\ handler.name = GoogleName
    /\ Succeeded(handler)
    /\ Len(opened_url) = 1
    /\ \E k \in 1..Len(opened_url[1]) : opened_url[1][k] = Lit("@")

(***************************************************************************)
(* Failures of the show-map flow after validation.                         *)
(***************************************************************************)
\* C25: a show-map flow that ends with an error message after validation
\* has passed (the conversion or the rendering raised) leaves the store and
\* the EOV->WGS result field as they were before the flow.
C25_ShowMapIsAllOrNothing ==
    [][/\ handler'.name = ShowMapName
       /\ handler'.valid
       /\ handler'.fault # "none"
       => /\ markers' = markers
          /\ eovtowgs_output' = eovtowgs_output]_vars

(***************************************************************************)
(* The icon of the message box of main_improved.py.                        *)
(***************************************************************************)
IsErrorBox(box) == box.text # MsgScreenshotSaved

\* C26: in main_improved.py every error message is shown with the Critical
\* icon of the shared message box, also after a screenshot has been saved.
C26_ErrorsShownCritical ==
    version = Improved =>
        \A k \in 1..Len(shown) : IsErrorBox(shown[k]) => shown[k].icon = "Critical"

(***************************************************************************)
(* Frame condition of the KML export.                                      *)
(***************************************************************************)
\* C27: export_to_kml leaves the store and the displayed map as they were,
\* whatever its outcome; when the save dialog is cancelled (it returns the
\* empty path) no file is written and no message is shown.
C27_ExportLeavesStoreAndMap ==
    [][\A name \in FileNames, f \in ExportFaults :
          export_to_kml(name, f) =>
              /\ markers' = markers
              /\ map_widget' = map_widget
              /\ save_dialog' /\ name = "" =>
                    /\ kml_files' = NoFile
                    /\ shown' = <<>>]_vars

C27_Witness ==
    /\ handler.name = ExportName
    /\ markers # <<>>
    /\ DrawnPoints(map_widget) # <<>>
    /\ save_dialog
    /\ kml_files = NoFile
    /\ shown = <<>>

(***************************************************************************)
(* The results of the validators.                                          *)
(***************************************************************************)
IsFloat(f) == f.cls \in {"fin", "inf", "nan"}

\* C28: validate_wgs_coordinates returns (True, "", a pair of floats) or
\* (False, a non-empty message, None), and nothing else: never coordinates
\* with a failure, never a success without coordinates.
C28_WgsResultIsConsistent ==
    IsWgsCall =>
        \/ /\ ret[1] = TRUE
           /\ ret[2] = ""
           /\ Len(ret[3]) = 2
           /\ IsFloat(ret[3][1]) /\ IsFloat(ret[3][2])
        \/ /\ ret[1] = FALSE
           /\ ret[2] # ""
           /\ ret[3] = NoCoords

C28_Witness ==
    /\ IsWgsCall
    /\ call[2] = <<"4", "7", ".", "5", ",", " ", "1", "9", ".", "0">>
    /\ ret[1] = TRUE
    /\ ret[3][1] # ret[3][2]

IsFinite(f) == f.cls = "fin"

\* C29: a text a validator accepts denotes a finite number: after a
\* successful validate_eov_coordinates both texts parse to finite floats,
\* and the pair returned by a successful validate_wgs_coordinates is finite
\* ("nan", "inf" and "1e400" are rejected).
C29_AcceptedInputsAreFinite ==
    /\ IsEovCall /\ ret[1] =>
          IsFinite(FloatOf(call[2])) /\ IsFinite(FloatOf(call[3]))
    /\ IsWgsCall /\ ret[1] =>
          IsFinite(ret[3][1]) /\ IsFinite(ret[3][2])

====
